---- MODULE Spec2Model ----
(***************************************************************************)
(* A model of codyps/hp-if: the HP-IL physical-layer sample buffer         *)
(* (PhyBitDecoder, PhySampleIter), the message framer (PollPhy) and the    *)
(* HP-71 bus device (BusDevice).                                           *)
(*                                                                         *)
(* A u32 is a sequence of 32 bits, bit i of the word at index i + 1, so    *)
(* that shifts, masks and ors are computed bit by bit as the code does.    *)
(***************************************************************************)
EXTENDS Integers, Sequences, FiniteSets, TLC

VARIABLES
    packed_samples,      \* PhyBitDecoder.packed_samples: u32
    packed_sample_offs,  \* PhyBitDecoder.packed_sample_offs: u8
    panicked,            \* the thread has panicked (assert!, unwrap, unimplemented!)
    pushed,              \* history: every sample pushed so far, in push order
    collected,           \* phy.samples().collect() taken since the last push, or "none"
    message_bit_offs,    \* PollPhy.message_bit_offs: u8
    message_bits,        \* PollPhy.message_bits: u16
    seqResult,           \* the last check_seq() on the samples held: "none" (not called),
                         \* "true", "false" (its return value) or "panicked"
    yielded,             \* messages PollPhy has handed out so far
    fedBits,             \* the bits the transmitter has put on the loop so far
    cur,                 \* samples of the bit in transmission not yet sampled
    configured,          \* BusDevice.configured
    id,                  \* BusDevice.id
    lastCall,            \* the last command() call, <<inputs and the state it found>>, or <<>>
    cmdResult,           \* how the last command() ended: "none", "returned", "panicked"
    response,            \* what the last command() put on the bus, or "none"
    sigOut,              \* the last out_signals() result, <<BusSignalsOut>>, or <<>>
    raw,                 \* Message.raw: u16
    raw0,                \* the raw value the Message was built with
    msgOut,              \* what control() and data() last returned, each <<u8>>, or <<>>
    smp,                 \* a PhySample handed to as_bits
    byte,                \* a u8 handed to from_bits
    codec,               \* what as_bits and from_bits returned for them, each <<value>>, or <<>>
    iter,                \* the PhySampleIter of the last samples() call, and what it yielded
    prevGot              \* <<items>> of the last iterator run to its end since the last push, or <<>>

decVars == <<packed_samples, packed_sample_offs, pushed, collected>>
phyVars == <<message_bit_offs, message_bits, seqResult, yielded, fedBits, cur>>
busVars == <<configured, id, lastCall, cmdResult, response, sigOut>>
msgVars == <<raw, raw0, msgOut>>
codecVars == <<smp, byte, codec>>
iterVars == <<iter, prevGot>>
auxVars == <<msgVars, codecVars, iterVars>>
vars == <<decVars, phyVars, busVars, auxVars, panicked>>

\* ------------------------------------------------------------------ bounds

\* pushes onto one PhyBitDecoder
MaxPushes == 18
\* places in a pushed sequence where the level differs from the sample before
MaxChanges == 2

\* command() calls on one BusDevice
MaxCalls == 4
\* the identification values a BusDevice is built with: 0..MaxId
MaxId == 3

\* pushes onto the PhyBitDecoder whose iterator is stepped
IterMaxPushes == 17
\* changes of level in that pushed sequence
IterMaxChanges == 1
\* next() calls made on an iterator that has ended
MaxNones == 2

\* bits the transmitter puts on the loop
MaxFedBits == 11
\* sync-format bits among them
MaxSyncs == 2

\* ------------------------------------------------------------- PhySample

PhySample == {"Zero", "Pos", "Neg"}

\* as_bits with Zero encoded as 0b00
as_bits_zero(s) ==
    CASE s = "Zero" -> 0
      [] s = "Pos" -> 1
      [] s = "Neg" -> 2

as_bits(s) ==
    CASE s = "Zero" -> 3
      [] s = "Pos" -> 1
      [] s = "Neg" -> 2

\* from_bits with the codes of Pos and Neg exchanged
from_bits_swapped(b) ==
    CASE b = 3 -> "Zero"
      [] b = 1 -> "Neg"
      [] b = 2 -> "Pos"
      [] OTHER -> "None"

from_bits(b) ==
    CASE b = 3 -> "Zero"
      [] b = 1 -> "Pos"
      [] b = 2 -> "Neg"
      [] OTHER -> "None"

\* ------------------------------------------------------------- u32 words

WordBits == 32
SampleBits == 2

Pow2(n) == 2 ^ n

\* a value below 2^8 widened to u32 (`as u32`, and the literal 0b11)
U32(n) == [i \in 1..WordBits |-> IF i <= 8 THEN (n \div Pow2(i - 1)) % 2 ELSE 0]

\* a rotation to the right: the bits shifted out come back in at the top
rotate_right(w, n) == [i \in 1..WordBits |-> w[((i - 1 + n) % WordBits) + 1]]

\* u32::wrapping_shr: the shift amount is taken modulo 32
wrapping_shr(w, n) ==
    [i \in 1..WordBits |-> IF i + (n % WordBits) <= WordBits THEN w[i + (n % WordBits)] ELSE 0]

\* >> with an amount below 32
Shr(w, n) == [i \in 1..WordBits |-> IF i + n <= WordBits THEN w[i + n] ELSE 0]

\* << with an amount below 32: the bits moved past the top are lost
Shl(w, n) == [i \in 1..WordBits |-> IF i - n >= 1 THEN w[i - n] ELSE 0]

BitOr(a, b) == [i \in 1..WordBits |-> IF a[i] = 1 \/ b[i] = 1 THEN 1 ELSE 0]

BitAnd(a, b) == [i \in 1..WordBits |-> IF a[i] = 1 /\ b[i] = 1 THEN 1 ELSE 0]

\* `as u8`: the low eight bits
AsU8(w) ==
    w[1] + 2 * w[2] + 4 * w[3] + 8 * w[4] + 16 * w[5] + 32 * w[6] + 64 * w[7] + 128 * w[8]

\* PhyBitDecoder::default()
DefaultPacked == [i \in 1..WordBits |-> 0]

\* --------------------------------------------------------- PhyBitDecoder

\* push with the cap at 32 bits left out
push_cap_none(offs) == offs

\* push: `if self.packed_sample_offs == 32 { self.packed_sample_offs -= 2; }`
push_cap(offs) == IF offs = WordBits THEN offs - SampleBits ELSE offs

\* push: the two assertions, `(offs & 1) == 0` before the cap and `offs <= 30` after it
push_asserts(offs) == offs % 2 = 0 /\ push_cap(offs) <= WordBits - SampleBits

\* push that ors the new sample in without shifting the old ones down
push_packed_noshift(ps, sample) ==
    BitOr(ps, Shl(U32(as_bits(sample)), WordBits - SampleBits))

\* push: `packed_samples = packed_samples.wrapping_shr(2)`, then
\* `packed_samples |= (sample.as_bits() as u32) << (32 - 2)`
push_packed(ps, sample) ==
    BitOr(wrapping_shr(ps, SampleBits), Shl(U32(as_bits(sample)), WordBits - SampleBits))

\* push that leaves the offset at 30 once it has capped it
push_offs_capped_stays(offs) == IF offs = WordBits THEN push_cap(offs) ELSE (offs + SampleBits) % 256

\* push: `packed_sample_offs += 2` on the capped offset, in a u8
push_offs(offs) == (push_cap(offs) + SampleBits) % 256

\* the number of places where a sequence's level changes
NumChanges(s) == Cardinality({i \in 1..(Len(s) - 1) : s[i] # s[i + 1]})

\* PhyBitDecoder::push(sample); a failed assert! panics and leaves the fields alone
push(sample) ==
    /\ ~panicked
    /\ Len(pushed) < MaxPushes
    /\ NumChanges(Append(pushed, sample)) <= MaxChanges
    /\ pushed' = Append(pushed, sample)
    /\ collected' = "none"
    /\ IF push_asserts(packed_sample_offs)
       THEN /\ packed_samples' = push_packed(packed_samples, sample)
            /\ packed_sample_offs' = push_offs(packed_sample_offs)
            /\ panicked' = FALSE
       ELSE /\ UNCHANGED <<packed_samples, packed_sample_offs>>
            /\ panicked' = TRUE
    /\ UNCHANGED <<phyVars, busVars, auxVars>>

\* --------------------------------------------------------- PhySampleIter

\* next reading the slots from the low end of the word
next_shift_low(sample_offs) == sample_offs

\* next: `let shift = 32 - self.sample_offs - 2`
next_shift(sample_offs) == WordBits - sample_offs - SampleBits

\* next: `((self.p.packed_samples & mask) >> shift) as u8` with `mask = 0b11 << shift`
next_bits(ps, sample_offs) ==
    AsU8(Shr(BitAnd(ps, Shl(U32(3), next_shift(sample_offs))), next_shift(sample_offs)))

\* PhySampleIter::next: "End" is None; "PANIC" is the unwrap() of from_bits' None,
\* or the u8 subtraction `32 - sample_offs - 2` going below zero (overflow checks on)
next(ps, offs, sample_offs) ==
    IF sample_offs = offs THEN [item |-> "End", sample_offs |-> sample_offs]
    ELSE IF next_shift(sample_offs) < 0 THEN [item |-> "PANIC", sample_offs |-> sample_offs]
    ELSE LET s == from_bits(next_bits(ps, sample_offs)) IN
         [item |-> IF s = "None" THEN "PANIC" ELSE s,
          sample_offs |-> (sample_offs + SampleBits) % 256]

\* Iterator::collect over PhySampleIter: next() until None; a panic ends the sequence
\* with "PANIC"
RECURSIVE CollectFrom(_, _, _)
CollectFrom(ps, offs, sample_offs) ==
    LET n == next(ps, offs, sample_offs) IN
    IF n.item = "End" THEN <<>>
    ELSE IF n.item = "PANIC" THEN <<"PANIC">>
    ELSE <<n.item>> \o CollectFrom(ps, offs, n.sample_offs)

\* PhyBitDecoder::samples(): the iterator starts at sample_offs 0
samples_start == 0

\* `phy.samples().collect()`
collect ==
    /\ ~panicked
    /\ collected = "none"
    /\ LET rs == CollectFrom(packed_samples, packed_sample_offs, samples_start) IN
       /\ collected' = rs
       /\ panicked' = (Len(rs) > 0 /\ rs[Len(rs)] = "PANIC")
    /\ UNCHANGED <<packed_samples, packed_sample_offs, pushed, phyVars, busVars, auxVars>>

\* --------------------------------------------------------- initial states

\* PhyBitDecoder::default()
DecoderDefault ==
    /\ packed_samples = DefaultPacked
    /\ packed_sample_offs = 0
    /\ pushed = <<>>
    /\ collected = "none"

\* PollPhy::default(), nothing transmitted yet
PhyDefault ==
    /\ message_bit_offs = 0
    /\ message_bits = 0
    /\ seqResult = "none"
    /\ yielded = <<>>
    /\ fedBits = <<>>
    /\ cur = <<>>

\* a BusDevice nothing has been called on
BusIdle ==
    /\ lastCall = <<>>
    /\ cmdResult = "none"
    /\ response = "none"
    /\ sigOut = <<>>

\* no Message accessor called
MsgIdle ==
    /\ raw = 0
    /\ raw0 = 0
    /\ msgOut = [control |-> <<>>, data |-> <<>>]

\* enc: as_bits(smp); dec: from_bits(byte); back: from_bits of enc; again: as_bits
\* of the sample in dec. Each is <<value>> once computed, <<>> before.
NoCodec == [enc |-> <<>>, dec |-> <<>>, back |-> <<>>, again |-> <<>>]

\* neither conversion of PhySample called
CodecIdle ==
    /\ smp = "Zero"
    /\ byte = 0
    /\ codec = NoCodec

\* `p` is the decoder the iterator borrows, as it was when samples() made it; `got`
\* the items next() has returned, `nones` how often it has returned None
NoIter ==
    [live |-> FALSE, sample_offs |-> 0, got |-> <<>>, nones |-> 0, p |-> <<DefaultPacked, 0>>]

\* no PhySampleIter made
IterIdle ==
    /\ iter = NoIter
    /\ prevGot = <<>>

\* ------------------------------------------- the sample buffer on its own

Init ==
    /\ DecoderDefault
    /\ PhyDefault
    /\ BusIdle
    /\ MsgIdle
    /\ CodecIdle
    /\ IterIdle
    /\ configured = FALSE
    /\ id = 0
    /\ panicked = FALSE

Next ==
    \/ \E sample \in PhySample : push(sample)
    \/ collect

Spec == Init /\ [][Next]_vars

\* ------------------------------------------------ claims: the sample buffer

\* `32 / 2 = 16` samples possible
Capacity == WordBits \div SampleBits

Reverse(s) == [i \in 1..Len(s) |-> s[Len(s) + 1 - i]]

\* the last n elements of s (all of s when it is shorter)
LastN(s, n) == IF Len(s) <= n THEN s ELSE SubSeq(s, Len(s) - n + 1, Len(s))

\* C1: after push(A), push(B), push(C) onto a decoder that held at most 13 samples,
\* samples() yields the held samples oldest first, so its last three items are
\* A, B, C in push order (and it is exactly A, B, C when the decoder started empty).
C1_OldestFirst ==
    (collected # "none" /\ Len(pushed) >= 3 /\ Len(pushed) <= Capacity)
        => /\ collected = pushed
           /\ LastN(collected, 3) = LastN(pushed, 3)

C3_Last16InPushOrder ==
    (collected # "none" /\ Len(pushed) = Capacity + 1)
        => collected = SubSeq(pushed, 2, Capacity + 1)

\* C4: packed_sample_offs is even and within 0..32 in every state reached by pushes,
\* so neither assertion of push fails and push never panics, also on a full buffer.
C4_OffsEvenInRange ==
    /\ packed_sample_offs % 2 = 0
    /\ packed_sample_offs >= 0
    /\ packed_sample_offs <= WordBits
    /\ push_asserts(packed_sample_offs)
    /\ ~panicked

\* a push onto a full buffer has happened and the offset is back at 32
C4_Witness ==
    /\ Len(pushed) > Capacity
    /\ packed_sample_offs = WordBits
    /\ ~panicked

\* -------------------------------------------------------------- BusDevice

Command == {"Id", "Config"}

\* command with the test of `configured` inverted
command_returns_early_neg(cfg, daisy_in) == cfg /\ ~daisy_in

\* command: `if !self.configured && !sig.daisy_in { return; }`
command_returns_early(cfg, daisy_in) == ~cfg /\ ~daisy_in

\* how many command() calls have been made
NumCalls == IF lastCall = <<>> THEN 0 ELSE lastCall[1].n

\* command that copies daisy_in into `configured` before anything else
command_unconfigures(cmd, sig) ==
    /\ ~panicked
    /\ NumCalls < MaxCalls
    /\ lastCall' = <<[cmd |-> cmd, daisy_in |-> sig.daisy_in,
                      was_configured |-> configured, was_id |-> id, n |-> NumCalls + 1]>>
    /\ configured' = sig.daisy_in
    /\ IF command_returns_early(configured, sig.daisy_in)
       THEN /\ cmdResult' = "returned"
            /\ response' = "none"
            /\ panicked' = FALSE
       ELSE /\ cmdResult' = "panicked"
            /\ response' = response
            /\ panicked' = TRUE
    /\ UNCHANGED <<id, sigOut, decVars, phyVars, auxVars>>

\* BusDevice::command(cmd, sig): the early return, or else (the block for an
\* unconfigured device with daisy_in high is empty) the unimplemented!() that ends
\* the function, which panics
command(cmd, sig) ==
    /\ ~panicked
    /\ NumCalls < MaxCalls
    /\ lastCall' = <<[cmd |-> cmd, daisy_in |-> sig.daisy_in,
                      was_configured |-> configured, was_id |-> id, n |-> NumCalls + 1]>>
    /\ IF command_returns_early(configured, sig.daisy_in)
       THEN /\ cmdResult' = "returned"
            /\ response' = "none"
            /\ panicked' = FALSE
       ELSE /\ cmdResult' = "panicked"
            /\ response' = response
            /\ panicked' = TRUE
    /\ UNCHANGED <<configured, id, sigOut, decVars, phyVars, auxVars>>

\* out_signals driving daisy_out high whatever the state
out_signals_high(cfg) == [daisy_out |-> TRUE]

\* BusDevice::out_signals: `BusSignalsOut { daisy_out: self.configured }`
out_signals(cfg) == [daisy_out |-> cfg]

\* a call of out_signals()
OutSignals ==
    /\ ~panicked
    /\ sigOut' = <<out_signals(configured)>>
    /\ UNCHANGED <<configured, id, lastCall, cmdResult, response, panicked, decVars, phyVars, auxVars>>

\* a BusDevice literal: either state, any of the identification values
InitBus ==
    /\ DecoderDefault
    /\ PhyDefault
    /\ BusIdle
    /\ MsgIdle
    /\ CodecIdle
    /\ IterIdle
    /\ configured \in BOOLEAN
    /\ id \in 0..MaxId
    /\ panicked = FALSE

NextBus ==
    \/ \E cmd \in Command, daisy_in \in BOOLEAN : command(cmd, [daisy_in |-> daisy_in])
    \/ OutSignals

SpecBus == InitBus /\ [][NextBus]_vars

\* ----------------------------------------------------- claims: BusDevice

\* C5: in every reachable BusDevice state the daisy_out that out_signals() returned
\* equals the configured flag: high only while Configured, low while Unconfigured
\* whatever daisy_in the commands carried.
C5_DaisyOutIsConfigured ==
    sigOut # <<>> => sigOut[1].daisy_out = configured

\* an unconfigured device that took a command and reports daisy_out low
C5_Witness ==
    /\ lastCall # <<>>
    /\ ~configured
    /\ sigOut = <<[daisy_out |-> FALSE]>>

\* C6: on an Unconfigured device with daisy_in low, command(cmd, sig) returns
\* normally for Id and for Config, leaves configured and id as they were, emits no
\* response, and daisy_out stays low.
C6_UnconfiguredIgnores ==
    (lastCall # <<>> /\ ~lastCall[1].was_configured /\ ~lastCall[1].daisy_in)
        => /\ cmdResult = "returned"
           /\ ~panicked
           /\ configured = lastCall[1].was_configured
           /\ id = lastCall[1].was_id
           /\ response = "none"
           /\ ~out_signals(configured).daisy_out

\* a Config command with daisy_in low has returned on an unconfigured device
C6_Witness ==
    /\ lastCall # <<>>
    /\ lastCall[1].cmd = "Config"
    /\ ~lastCall[1].daisy_in
    /\ ~lastCall[1].was_configured
    /\ cmdResult = "returned"

\* C7: once an Unconfigured device has processed command(Config, daisy_in = true)
\* it is Configured and daisy_out is high.
C7_ConfigConfigures ==
    (lastCall # <<>> /\ lastCall[1].cmd = "Config" /\ lastCall[1].daisy_in
        /\ ~lastCall[1].was_configured)
        => /\ cmdResult = "returned"
           /\ configured
           /\ out_signals(configured).daisy_out

\* ---------------------------------------------------------------- PollPhy

\* a Message is 11 bits: 1 sync, 2 control, 8 data
FrameBits == 11

\* the bit encodings PhyBitDecoder documents, oldest sample first:
\* 1: PNZZ, 0: NPZZ, 1 sync: PNPNZZ, 0 sync: NPNPZZ
Pattern(bit, sync) ==
    CASE bit = 1 /\ ~sync -> <<"Pos", "Neg", "Zero", "Zero">>
      [] bit = 0 /\ ~sync -> <<"Neg", "Pos", "Zero", "Zero">>
      [] bit = 1 /\ sync -> <<"Pos", "Neg", "Pos", "Neg", "Zero", "Zero">>
      [] bit = 0 /\ sync -> <<"Neg", "Pos", "Neg", "Pos", "Zero", "Zero">>

NumSyncs(bits) == Cardinality({i \in 1..Len(bits) : bits[i].sync})

\* `self.bit_decode.push(sample)`: PhyBitDecoder::push on the framer's own buffer
bit_decode_push(sample) ==
    /\ pushed' = Append(pushed, sample)
    /\ collected' = "none"
    /\ IF push_asserts(packed_sample_offs)
       THEN /\ packed_samples' = push_packed(packed_samples, sample)
            /\ packed_sample_offs' = push_offs(packed_sample_offs)
            /\ panicked' = FALSE
       ELSE /\ UNCHANGED <<packed_samples, packed_sample_offs>>
            /\ panicked' = TRUE

\* the loop is sampled once: the next sample of the bit in transmission (the
\* transmitter starting a new bit when the last one has been sampled whole; the
\* first bit of a frame always has the sync format) is pushed to bit_decode
PhyFeed ==
    /\ ~panicked
    /\ seqResult' = "none"
    /\ IF cur # <<>>
       THEN /\ bit_decode_push(cur[1])
            /\ cur' = Tail(cur)
            /\ fedBits' = fedBits
       ELSE \E bit \in {0, 1}, sync \in BOOLEAN :
            /\ Len(fedBits) < MaxFedBits
            /\ fedBits = <<>> => sync
            /\ sync => NumSyncs(fedBits) < MaxSyncs
            /\ fedBits' = Append(fedBits, [bit |-> bit, sync |-> sync])
            /\ bit_decode_push(Pattern(bit, sync)[1])
            /\ cur' = Tail(Pattern(bit, sync))
    /\ UNCHANGED <<message_bit_offs, message_bits, yielded, busVars, auxVars>>

\* check_seq that shifts a 1 into message_bits whatever the samples are
check_seq_accumulates ==
    /\ ~panicked
    /\ seqResult = "none"
    /\ seqResult' = "true"
    /\ message_bits' = (2 * message_bits + 1) % Pow2(16)
    /\ message_bit_offs' = (message_bit_offs + 1) % 256
    /\ UNCHANGED <<yielded, fedBits, cur, decVars, busVars, auxVars, panicked>>

\* PollPhy::check_seq: its body is `unimplemented!()`, which panics
check_seq ==
    /\ ~panicked
    /\ seqResult = "none"
    /\ seqResult' = "panicked"
    /\ panicked' = TRUE
    /\ UNCHANGED <<message_bit_offs, message_bits, yielded, fedBits, cur, decVars, busVars, auxVars>>

\* PollPhy::default()
InitPhy ==
    /\ DecoderDefault
    /\ PhyDefault
    /\ BusIdle
    /\ MsgIdle
    /\ CodecIdle
    /\ IterIdle
    /\ configured = FALSE
    /\ id = 0
    /\ panicked = FALSE

NextPhy ==
    \/ PhyFeed
    \/ check_seq

SpecPhy == InitPhy /\ [][NextPhy]_vars

\* ------------------------------------------------------- claims: PollPhy

\* the samples the framer's buffer holds, oldest first
Window == Reverse(CollectFrom(packed_samples, packed_sample_offs, samples_start))

\* the bit the newest samples of w encode, <<[bit, sync]>>, or <<>> when they encode
\* none (the sync formats end in the plain ones and are looked for first)
DecodeBit(w) ==
    IF LastN(w, 6) = Pattern(1, TRUE) THEN <<[bit |-> 1, sync |-> TRUE]>>
    ELSE IF LastN(w, 6) = Pattern(0, TRUE) THEN <<[bit |-> 0, sync |-> TRUE]>>
    ELSE IF LastN(w, 4) = Pattern(1, FALSE) THEN <<[bit |-> 1, sync |-> FALSE]>>
    ELSE IF LastN(w, 4) = Pattern(0, FALSE) THEN <<[bit |-> 0, sync |-> FALSE]>>
    ELSE <<>>

\* the value of a frame's bits, the sync bit first and highest (0b100 of control())
RECURSIVE FrameValue(_)
FrameValue(bits) ==
    IF bits = <<>> THEN 0
    ELSE bits[1].bit * Pow2(FrameBits - 1) + FrameValue(Tail(bits)) \div 2

\* the bits accumulated in message_bits, the first received first
AccumulatedBits ==
    [i \in 1..message_bit_offs |-> (message_bits \div Pow2(FrameBits - i)) % 2]

\* check_seq has been run on the samples held
Checked == seqResult # "none"

\* C8: one sync bit followed by ten more bits fed to PollPhy yields exactly one
\* message, whose bits are the bits supplied; nothing is yielded before the 11th
\* bit; after yielding, message_bit_offs and message_bits are back at 0.
C8_FrameAssembled ==
    /\ (Len(fedBits) < FrameBits \/ cur # <<>>) => yielded = <<>>
    /\ (Checked /\ Len(fedBits) = FrameBits /\ cur = <<>> /\ NumSyncs(fedBits) = 1)
        => /\ ~panicked
           /\ yielded = <<FrameValue(fedBits)>>
           /\ message_bit_offs = 0
           /\ message_bits = 0

\* C9: a sync bit recognized while a frame of fewer than 11 bits is in progress
\* drops the partial frame and restarts accumulation from the new sync bit, which
\* then is the one bit accumulated; the partial frame is never yielded.
C9_ResyncRestarts ==
    (Checked /\ cur = <<>> /\ NumSyncs(fedBits) = 2 /\ fedBits[Len(fedBits)].sync)
        => /\ ~panicked
           /\ yielded = <<>>
           /\ message_bit_offs = 1
           /\ AccumulatedBits = <<fedBits[Len(fedBits)].bit>>

\* C10: check_seq decodes the newest samples: PNZZ is 1, NPZZ is 0, PNPNZZ is 1 with
\* sync, NPNPZZ is 0 with sync, and nothing else is a bit. check_seq's result is
\* taken as whether a bit was decoded; a decoded bit is the newest one accumulated
\* in message_bits, and a sync bit the only one.
C10_DecodesPatterns ==
    /\ (Checked /\ DecodeBit(Window) = <<>>) => seqResult # "true"
    /\ (Checked /\ DecodeBit(Window) # <<>>)
        => /\ ~panicked
           /\ seqResult = "true"
           /\ message_bit_offs >= 1
           /\ AccumulatedBits[message_bit_offs] = DecodeBit(Window)[1].bit
           /\ DecodeBit(Window)[1].sync => message_bit_offs = 1

\* ---------------------------------------------------------------- Message

\* bit i of a u16
Bit16(n, i) == (n \div Pow2(i)) % 2

\* `&` of two u16, bit by bit from bit i up
RECURSIVE And16From(_, _, _)
And16From(a, b, i) ==
    IF i > 15 THEN 0
    ELSE Bit16(a, i) * Bit16(b, i) * Pow2(i) + And16From(a, b, i + 1)

\* control with a mask that leaves the sync bit out
control_no_sync(r) == (And16From(r, 3 * Pow2(8), 0) \div Pow2(8)) % 256

\* Message::control: `((self.raw & (0b111 << 8)) >> 8) as u8`
control(r) == (And16From(r, 7 * Pow2(8), 0) \div Pow2(8)) % 256

\* Message::data: `self.raw as u8`
data(r) == r % 256

\* a call of control(); `&self`: raw stays
Control ==
    /\ msgOut.control = <<>>
    /\ msgOut' = [msgOut EXCEPT !.control = <<control(raw)>>]
    /\ UNCHANGED <<raw, raw0, codecVars, iterVars, decVars, phyVars, busVars, panicked>>

\* a call of data(); `&self`: raw stays
Data ==
    /\ msgOut.data = <<>>
    /\ msgOut' = [msgOut EXCEPT !.data = <<data(raw)>>]
    /\ UNCHANGED <<raw, raw0, codecVars, iterVars, decVars, phyVars, busVars, panicked>>

\* a Message of any raw u16
InitMsg ==
    /\ DecoderDefault
    /\ PhyDefault
    /\ BusIdle
    /\ CodecIdle
    /\ IterIdle
    /\ raw \in 0..65535
    /\ raw0 = raw
    /\ msgOut = [control |-> <<>>, data |-> <<>>]
    /\ configured = FALSE
    /\ id = 0
    /\ panicked = FALSE

NextMsg ==
    \/ Control
    \/ Data

SpecMsg == InitMsg /\ [][NextMsg]_vars

\* ------------------------------------------------------- claims: Message

\* C11: for every raw u16, control() is bits 10..8 of raw (0..7, the sync bit its
\* 0b100), data() is bits 7..0, so control() * 256 + data() = raw mod 2^11; with
\* bit 10 of raw set control() is in 4..7; neither call changes the message.
C11_ControlData ==
    /\ raw = raw0
    /\ msgOut.control # <<>>
        => /\ msgOut.control[1] = (raw \div 256) % 8
           /\ msgOut.control[1] \in 0..7
           /\ (raw \div 1024) % 2 = 1 => msgOut.control[1] \in 4..7
    /\ msgOut.data # <<>> => msgOut.data[1] = raw % 256
    /\ (msgOut.control # <<>> /\ msgOut.data # <<>>)
        => msgOut.control[1] * 256 + msgOut.data[1] = raw % 2048

\* both accessors called on a message with the sync bit and bits above bit 10 set
C11_Witness ==
    /\ raw = 65535
    /\ msgOut.control = <<7>>
    /\ msgOut.data = <<255>>

\* ------------------------------------------ PhySampleIter, step by step

\* next on an iterator that drains the buffer it reads
iter_drain(ps, offs) == <<Shl(ps, SampleBits), offs - SampleBits>>

\* the decoder after a next(): the iterator holds `p: &'a PhyBitDecoder`, a shared
\* borrow, and writes only its own sample_offs
iter_borrow(ps, offs) == <<ps, offs>>

\* PhyBitDecoder::samples(): `PhySampleIter { p: self, sample_offs: 0 }`
samples ==
    /\ ~panicked
    /\ ~iter.live
    /\ iter' = [live |-> TRUE, sample_offs |-> samples_start, got |-> <<>>, nones |-> 0,
                p |-> <<packed_samples, packed_sample_offs>>]
    /\ UNCHANGED <<prevGot, decVars, phyVars, busVars, msgVars, codecVars, panicked>>

\* one call of PhySampleIter::next on the live iterator
iter_next ==
    /\ ~panicked
    /\ iter.live
    /\ iter.nones < MaxNones
    /\ LET n == next(packed_samples, packed_sample_offs, iter.sample_offs) IN
       IF n.item = "End"
       THEN /\ iter' = [iter EXCEPT !.nones = @ + 1]
            /\ UNCHANGED <<packed_samples, packed_sample_offs, panicked>>
       ELSE IF n.item = "PANIC"
       THEN /\ panicked' = TRUE
            /\ UNCHANGED <<iter, packed_samples, packed_sample_offs>>
       ELSE /\ iter' = [iter EXCEPT !.got = Append(@, n.item), !.sample_offs = n.sample_offs]
            /\ packed_samples' = iter_borrow(packed_samples, packed_sample_offs)[1]
            /\ packed_sample_offs' = iter_borrow(packed_samples, packed_sample_offs)[2]
            /\ panicked' = FALSE
    /\ UNCHANGED <<prevGot, pushed, collected, phyVars, busVars, msgVars, codecVars>>

\* the iterator, run to its end, goes out of scope
iter_drop ==
    /\ ~panicked
    /\ iter.live
    /\ iter.nones > 0
    /\ prevGot' = <<iter.got>>
    /\ iter' = NoIter
    /\ UNCHANGED <<decVars, phyVars, busVars, msgVars, codecVars, panicked>>

\* PhyBitDecoder::push while no iterator borrows the decoder
iter_push(sample) ==
    /\ ~panicked
    /\ ~iter.live
    /\ Len(pushed) < IterMaxPushes
    /\ NumChanges(Append(pushed, sample)) <= IterMaxChanges
    /\ bit_decode_push(sample)
    /\ prevGot' = <<>>
    /\ UNCHANGED <<iter, phyVars, busVars, msgVars, codecVars>>

NextIter ==
    \/ \E sample \in PhySample : iter_push(sample)
    \/ samples
    \/ iter_next
    \/ iter_drop

SpecIter == Init /\ [][NextIter]_vars

\* ------------------------------------------------ claims: PhySampleIter

\* the iterator has returned None
Ended == iter.live /\ iter.nones > 0

Min(a, b) == IF a <= b THEN a ELSE b

\* C12: samples() and running the iterator to its end leave packed_samples and
\* packed_sample_offs as they were, so two samples() runs with no push between
\* them yield the same sequence; only push changes the buffer.
C12_IterationReadsOnly ==
    /\ iter.live => iter.p = <<packed_samples, packed_sample_offs>>
    /\ (Ended /\ prevGot # <<>>) => iter.got = prevGot[1]

\* a second run over a full buffer holding two levels has ended
C12_Witness ==
    /\ Ended
    /\ prevGot # <<>>
    /\ Len(iter.got) = Capacity
    /\ iter.got[1] # iter.got[Capacity]

\* C13: after n pushes onto a default decoder the iteration ends: it yields exactly
\* min(n, 16) samples, then None, and None again on every further next();
\* sample_offs goes up in steps of 2 and meets packed_sample_offs, never passing it.
C13_IterationEnds ==
    /\ ~panicked
    /\ iter.live
        => /\ iter.sample_offs % 2 = 0
           /\ iter.sample_offs <= packed_sample_offs
           /\ iter.sample_offs = SampleBits * Len(iter.got)
    /\ Ended
        => /\ Len(iter.got) = Min(Len(pushed), Capacity)
           /\ iter.sample_offs = packed_sample_offs

\* after 17 pushes the iterator has yielded 16 samples and then None twice
C13_Witness ==
    /\ iter.live
    /\ iter.nones = 2
    /\ Len(pushed) = Capacity + 1
    /\ Len(iter.got) = Capacity

\* ------------------------------------- claims: the sample buffer, continued

\* how often x occurs in s
Count(s, x) == Cardinality({i \in 1..Len(s) : s[i] = x})

\* the samples the buffer should hold: the last 16 pushed
Held == LastN(pushed, Capacity)

\* C14: a push onto a full buffer drops exactly the sample pushed 16 pushes earlier,
\* keeps the other 15 in their order and adds the new one as the newest; after
\* n >= 16 pushes samples() yields the multiset of the last 16 pushed samples.
C14_SlidingWindow ==
    (collected # "none" /\ Len(pushed) >= Capacity)
        => /\ Len(collected) = Capacity
           /\ \A s \in PhySample : Count(collected, s) = Count(Held, s)
           /\ collected = Reverse(Held)

\* 17 pushes collected: the sample dropped differs from the oldest kept, the sample
\* added from the newest before it
C14_Witness ==
    /\ collected # "none"
    /\ Len(pushed) = Capacity + 1
    /\ pushed[1] # pushed[2]
    /\ pushed[Capacity] # pushed[Capacity + 1]

\* the 2-bit slot k of packed_samples counted from the top (slot 1 is bits 31..30)
SlotFromTop(k) ==
    packed_samples[WordBits - SampleBits * k + 1]
        + 2 * packed_samples[WordBits - SampleBits * k + 2]

\* C16: every slot of the filled region (the top packed_sample_offs bits) holds
\* 0b01, 0b10 or 0b11, never 0b00, and the iterator's shift 32 - sample_offs - 2
\* stays in 0..30, so next() panics neither on unwrap() nor on the u8 subtraction.
C16_FilledSlotsValid ==
    /\ ~panicked
    /\ \A k \in 1..(packed_sample_offs \div SampleBits) : SlotFromTop(k) \in {1, 2, 3}
    /\ \A k \in 0..(packed_sample_offs \div SampleBits - 1) :
           /\ next_shift(SampleBits * k) >= 0
           /\ next_shift(SampleBits * k) <= WordBits - SampleBits
    /\ collected # "none" => \A i \in 1..Len(collected) : collected[i] \in PhySample

\* a full buffer that took more than 16 pushes and holds Zero among other levels
\* has been iterated
C16_Witness ==
    /\ collected # "none"
    /\ Len(pushed) > Capacity
    /\ Count(collected, "Zero") > 0
    /\ Count(collected, "Zero") < Capacity

\* the word that holds the samples of s (oldest first) and nothing else: the newest
\* in the top slot, the rest of the word zero
PackedOf(s) ==
    [i \in 1..WordBits |->
        LET k == (WordBits - i) \div SampleBits + 1 IN
        IF k > Len(s) THEN 0
        ELSE (as_bits(s[Len(s) + 1 - k]) \div Pow2((i - 1) % SampleBits)) % 2]

\* C17: the low 32 - packed_sample_offs bits of packed_samples are zero, and the
\* pair (packed_samples, packed_sample_offs) is a function of the last min(n, 16)
\* pushed samples alone, so decoders with the same last 16 pushes are equal.
C17_StateOfLast16 ==
    /\ \A i \in 1..(WordBits - packed_sample_offs) : packed_samples[i] = 0
    /\ packed_sample_offs = SampleBits * Len(Held)
    /\ packed_samples = PackedOf(Held)

\* more than 16 pushes, the dropped sample differing from the oldest one held
C17_Witness ==
    /\ Len(pushed) > Capacity
    /\ pushed[Len(pushed) - Capacity] # pushed[Len(pushed) - Capacity + 1]
    /\ packed_sample_offs = WordBits

\* ------------------------------------------ claims: BusDevice, continued

\* C15: Configured is terminal: once configured is true no command(cmd, sig), with
\* any command and any daisy_in, sets it back to false, and a daisy_out that
\* out_signals() has reported high is never reported low afterwards.
C15_ConfiguredTerminal ==
    [][/\ configured => configured'
       /\ (sigOut # <<>> /\ sigOut[1].daisy_out)
            => (sigOut' # <<>> /\ sigOut'[1].daisy_out)]_vars

\* a configured device that reported daisy_out high has taken a command since and
\* is still configured
C15_Witness ==
    /\ lastCall # <<>>
    /\ lastCall[1].was_configured
    /\ configured
    /\ sigOut = <<[daisy_out |-> TRUE]>>

\* ------------------------------------------- claims: PollPhy, continued

\* the samples of a sync-format bit have all been pushed to bit_decode, and fewer
\* than 11 bits since: a frame is in progress
FrameInProgress ==
    \E i \in 1..Len(fedBits) :
        /\ fedBits[i].sync
        /\ i < Len(fedBits) \/ cur = <<>>
        /\ \A j \in (i + 1)..Len(fedBits) : ~fedBits[j].sync
        /\ Len(fedBits) - i + 1 < FrameBits \/ (Len(fedBits) - i + 1 = FrameBits /\ cur # <<>>)

U8 == 0..255

\* s.as_bits() for the sample in smp
AsBits ==
    /\ ~panicked
    /\ codec.enc = <<>>
    /\ codec' = [codec EXCEPT !.enc = <<as_bits(smp)>>]
    /\ UNCHANGED <<smp, byte, msgVars, iterVars, decVars, phyVars, busVars, panicked>>

\* PhySample::from_bits(b) for the byte in byte
FromBits ==
    /\ ~panicked
    /\ codec.dec = <<>>
    /\ codec' = [codec EXCEPT !.dec = <<from_bits(byte)>>]
    /\ UNCHANGED <<smp, byte, msgVars, iterVars, decVars, phyVars, busVars, panicked>>

\* PhySample::from_bits(s.as_bits())
FromBitsOfAsBits ==
    /\ ~panicked
    /\ codec.enc # <<>>
    /\ codec.back = <<>>
    /\ codec' = [codec EXCEPT !.back = <<from_bits(codec.enc[1])>>]
    /\ UNCHANGED <<smp, byte, msgVars, iterVars, decVars, phyVars, busVars, panicked>>

\* as_bits() of the sample from_bits(b) returned, when it returned Some
AsBitsOfFromBits ==
    /\ ~panicked
    /\ codec.dec # <<>>
    /\ codec.dec[1] # "None"
    /\ codec.again = <<>>
    /\ codec' = [codec EXCEPT !.again = <<as_bits(codec.dec[1])>>]
    /\ UNCHANGED <<smp, byte, msgVars, iterVars, decVars, phyVars, busVars, panicked>>

InitCodec ==
    /\ DecoderDefault
    /\ PhyDefault
    /\ BusIdle
    /\ MsgIdle
    /\ IterIdle
    /\ smp \in PhySample
    /\ byte \in U8
    /\ codec = NoCodec
    /\ configured = FALSE
    /\ id = 0
    /\ panicked = FALSE

NextCodec ==
    \/ AsBits
    \/ FromBits
    \/ FromBitsOfAsBits
    \/ AsBitsOfFromBits

SpecCodec == InitCodec /\ [][NextCodec]_vars

\* C19: the 2-bit encoding round-trips and reserves zero: from_bits(as_bits(s))
\* is Some(s) for every sample s, as_bits is injective and never 0b00,
\* from_bits(0b00) is None, and as_bits(from_bits(b)) is b for b in 1..3.
C19_RoundTrip ==
    /\ codec.back # <<>> => codec.back[1] = smp
    /\ codec.enc # <<>> => codec.enc[1] # 0
    /\ \A s, u \in PhySample : as_bits(s) = as_bits(u) => s = u
    /\ (codec.dec # <<>> /\ byte = 0) => codec.dec[1] = "None"
    /\ byte \in 1..3 => (codec.dec # <<>> => codec.dec[1] \in PhySample)
    /\ (codec.again # <<>> /\ byte \in 1..3) => codec.again[1] = byte

\* both round trips made, of a sample and of a byte in 1..3
C19_Witness ==
    /\ codec.back # <<>>
    /\ codec.again # <<>>
    /\ smp = "Neg"
    /\ byte \in 1..3

====
